---- MODULE Spec2Model ----
(***************************************************************************)
(* State-machine model of the RAPID log pipeline:                          *)
(*   ResultsParser.parse_output_file  (src/src/rapid/parser.py)            *)
(*   ResultsParser.update_json_file   (src/src/rapid/parser.py)            *)
(*   ResultsDBConverter.import_json_to_db (src/src/rapid/sql_converter.py) *)
(*   ResultsAnalyzer counts           (src/src/rapid/analyzer.py)          *)
(*   parse_logs and main              (src/src/rapid/rapid.py)             *)
(*   FaultInjecter.inject_bitflips    (src/src/rapid/injecter.py)          *)
(*   CanDaGuardia.monitor             (src/src/rapid/utils/candaguardia.py)*)
(*                                                                         *)
(* Encodings.  A Python dict is a TLA+ function whose DOMAIN is the key    *)
(* set.  A test name "{benchmark_type}_{test_num}" is the pair             *)
(* <<benchmark_type, test_num>>, test_num being a sequence of characters.  *)
(* An output text is the set of its (stripped, non-empty) lines; the empty *)
(* set is the empty string.  A log text is a sequence of tokens: "NL" is a *)
(* newline, "MK" the block marker literal, "CH" any other character.       *)
(***************************************************************************)
EXTENDS Integers, Sequences, FiniteSets, TLC

VARIABLES
    pc,              \* position of the pipeline for the current pair
    input_filename,  \* the specification file of the pair (parse_output_file)
    input_data,      \* the parsed specification: expected id -> its fields
    benchmark_type,  \* parse_output_file: name of the active classifier
    classifier,      \* parse_output_file: the active classifier (registry key)
    test_results,    \* parse_output_file: test name -> result dict
    block,           \* the block the tokenizer loop handled last
    nblocks,         \* number of blocks handled so far
    results_file,    \* the result file written by update_json_file
    db,              \* the SQLite tables filled by import_json_to_db
    content,         \* tokenizer: the raw log text
    test_blocks,     \* tokenizer: content.split('\n' + TEST_BLOCK_MARKER)
    status_dict,     \* parse_output_file: the status built for the last record
    registry,        \* get_all_classifiers: the dict under construction
    custom_files,    \* get_all_classifiers: explicit files still to load
    custom_dirs,     \* get_all_classifiers: scanned files still to load
    diagnostics,     \* files load_external_classifier gave a message for
    nloaded,         \* get_all_classifiers: number of files handled so far
    npairs,          \* parse_logs: pairs of the batch already finished
    parsed_files,    \* parse_logs: the counter of processed pairs
    written,         \* names of the result files written so far
    errors,          \* parse_logs: the exceptions its except clauses caught
    printed,         \* the messages the parser printed for the current pair
    nimports,        \* number of import_json_to_db calls on the database
    flags,           \* main: the parsed command-line switches (args)
    started,         \* main: the pipeline stage functions called so far
    returned,        \* main: what each of them returned
    exit_code,       \* main: the exit status of the process, once it has one
    file_path,       \* inject_bitflips: base name of the binary file
    original_data,   \* inject_bitflips: data, the bytes read from the file
    num_flips,       \* inject_bitflips: the requested number of flips
    rand_bits,       \* inject_bitflips: the sampled and sorted bit positions
    bitflips,        \* inject_bitflips: output file name -> flip information
    out_files,       \* inject_bitflips: output file name -> bytes written
    alert_interval,  \* monitor: seconds between two alerts
    cur_time,        \* monitor: time.time() of the current iteration
    old_data,        \* monitor: the last non-empty chunk read
    read_data,       \* monitor: data, the chunk read in the current iteration
    stuck,           \* monitor: the stuck flag
    last_alert_time, \* monitor: time of the last alert (0: none yet)
    alert_times,     \* monitor: the times at which an alert was raised
    silent_polls     \* monitor: iterations in a row whose read found no data

\* The state of the registry construction and of the batch loop.
regVars == <<registry, custom_files, custom_dirs, diagnostics, nloaded>>
batchVars == <<npairs, parsed_files, written, errors>>

\* The state of the repeated import.
importVars == <<nimports>>

\* The state of main().
mainVars == <<flags, started, returned, exit_code>>

\* The state of the fault injecter.
injectVars == <<file_path, original_data, num_flips, rand_bits, bitflips,
                out_files>>

\* The state of the file monitor.
monitorVars == <<alert_interval, cur_time, old_data, read_data, stuck,
                 last_alert_time, alert_times, silent_polls>>

toolVars == <<importVars, mainVars, injectVars, monitorVars>>

vars == <<pc, input_filename, input_data, benchmark_type, classifier,
          test_results, block, nblocks, results_file, db, content, test_blocks,
          status_dict, regVars, batchVars, printed, toolVars>>

\* Bounds of the model.
MaxBlocks == 2
MaxLen == 4
MaxSources == 2
MaxPairs == 2
MaxImports == 2
MaxBytes == 2
MaxFlips == 2
MaxInterval == 2
MaxPolls == 6

None == "None"

\* The same line printed n times.
Repeat(msg, n) == [i \in 1..n |-> msg]

\* A Python dict with no keys.
EmptyDict == [k \in {} |-> None]

\* dict.get(key, default)
Get(d, k, default) == IF k \in DOMAIN d THEN d[k] ELSE default

\* d[k] = v
Put(d, k, v) == [x \in (DOMAIN d) \cup {k} |-> IF x = k THEN v ELSE d[x]]

\* d.update(e)
Update(d, e) ==
    [x \in (DOMAIN d) \cup (DOMAIN e) |-> IF x \in DOMAIN e THEN e[x] ELSE d[x]]

----------------------------------------------------------------------------
(* Classifiers: the capability set of benchmark_classifier.py.             *)

\* The lines of an output text that a classifier looks for; "\\x00" is a
\* line holding a character outside printable ASCII.
Lines == {"SUCCESS", "ERROR", "timed out", "exit status=1", "hw-reset",
          "INCORRECT_RESULT", "trap: scause 0x2", "sepc=0x80", "stval=0x0",
          "\\x00", "TRAP cause=0"}

\* MyCustomClassifier (src/my_classifier.py), name "my_benchmark".
\* An Optional[int] is <<>> for None and <<n>> for the integer n.
My_get_trap(output) == IF "trap: scause 0x2" \in output THEN <<2>> ELSE << >>
My_get_trap_address(output) == IF "sepc=0x80" \in output THEN "0x80" ELSE None
My_get_trap_val(output) == IF "stval=0x0" \in output THEN "0x0" ELSE None
My_get_halt(output) == "timed out" \in output
My_get_comm_failure(output) == "\\x00" \in output
My_get_exec_failure(output) == "exit status=1" \in output
My_get_hw_reset(output) == "hw-reset" \in output
My_get_sdc(output) == "INCORRECT_RESULT" \in output
My_get_result(output) ==
    IF "SUCCESS" \in output THEN 0
    ELSE IF "ERROR" \in output THEN 1
    ELSE IF My_get_halt(output) \/ My_get_comm_failure(output) THEN 1
    ELSE 2

\* A second plug-in, name "coremark": it reports the trap cause 0 of a line
\* "TRAP cause=0", gives the empty string for an address it does not find, no
\* trap value and no execution failures, and classifies a run without output
\* as an outlier (result -1).
Core_get_trap(output) == IF "TRAP cause=0" \in output THEN <<0>> ELSE << >>
Core_get_trap_address(output) == IF "sepc=0x80" \in output THEN "0x80" ELSE ""
Core_get_halt(output) == "timed out" \in output
Core_get_hw_reset(output) == "hw-reset" \in output
Core_get_sdc(output) == "INCORRECT_RESULT" \in output
Core_get_result(output) ==
    IF "ERROR" \in output THEN 1 ELSE IF output = {} THEN -1 ELSE 0

\* The registry self.classifiers, in insertion order (lowercase name keys).
ClassifierOrder == <<"coremark", "my_benchmark">>
classifiers == {ClassifierOrder[i] : i \in 1..Len(ClassifierOrder)}

\* The methods of the classifier registered as cls.
get_name(cls) == cls
get_trap(cls, output) ==
    IF cls = "my_benchmark" THEN My_get_trap(output) ELSE Core_get_trap(output)
get_trap_address(cls, output) ==
    IF cls = "my_benchmark" THEN My_get_trap_address(output)
    ELSE Core_get_trap_address(output)
get_trap_val(cls, output) ==
    IF cls = "my_benchmark" THEN My_get_trap_val(output) ELSE None
get_halt(cls, output) ==
    IF cls = "my_benchmark" THEN My_get_halt(output) ELSE Core_get_halt(output)
get_comm_failure(cls, output) ==
    IF cls = "my_benchmark" THEN My_get_comm_failure(output) ELSE FALSE
get_exec_failure(cls, output) ==
    IF cls = "my_benchmark" THEN My_get_exec_failure(output) ELSE FALSE
get_hw_reset(cls, output) ==
    IF cls = "my_benchmark" THEN My_get_hw_reset(output)
    ELSE Core_get_hw_reset(output)
get_sdc(cls, output) ==
    IF cls = "my_benchmark" THEN My_get_sdc(output) ELSE Core_get_sdc(output)
get_result(cls, output) ==
    IF cls = "my_benchmark" THEN My_get_result(output)
    ELSE Core_get_result(output)

----------------------------------------------------------------------------
(* ResultsParser._build_status_dict                                        *)

\* The truth value of an Optional[str]: None and "" are false.
Truthy(v) == v # None /\ v # ""

\* A trap check by truth value: the cause 0 counts as no trap.
TrapEventTruthyCause(cls, output) ==
    LET trap_value == get_trap(cls, output)
        trap_addr == get_trap_address(cls, output)
        trap_val == get_trap_val(cls, output)
    IN  IF trap_value # << >> /\ trap_value[1] # 0
        THEN << [type |-> "trap", scause |-> trap_value[1],
                 sepc |-> IF Truthy(trap_addr) THEN trap_addr ELSE None,
                 stval |-> IF Truthy(trap_val) THEN trap_val ELSE None] >>
        ELSE << >>

TrapEvent(cls, output) ==
    LET trap_value == get_trap(cls, output)
        trap_addr == get_trap_address(cls, output)
        trap_val == get_trap_val(cls, output)
    IN  IF trap_value # << >>
        THEN << [type |-> "trap", scause |-> trap_value[1],
                 sepc |-> IF Truthy(trap_addr) THEN trap_addr ELSE None,
                 stval |-> IF Truthy(trap_val) THEN trap_val ELSE None] >>
        ELSE << >>

PlainEvent(present, kind) ==
    IF present THEN << [type |-> kind] >> ELSE << >>

\* An event list that puts the halt before the trap.
BuildEventsHaltFirst(cls, output) ==
    PlainEvent(get_halt(cls, output), "halt")
    \o TrapEvent(cls, output)
    \o PlainEvent(get_comm_failure(cls, output), "comm_failure")
    \o PlainEvent(get_exec_failure(cls, output), "exec_failure")
    \o PlainEvent(get_hw_reset(cls, output), "hw-reset")

BuildEvents(cls, output) ==
    TrapEvent(cls, output)
    \o PlainEvent(get_halt(cls, output), "halt")
    \o PlainEvent(get_comm_failure(cls, output), "comm_failure")
    \o PlainEvent(get_exec_failure(cls, output), "exec_failure")
    \o PlainEvent(get_hw_reset(cls, output), "hw-reset")

\* A mapping that knows only the codes 0 and 1.
ClassStrUnknown(result_code) ==
    IF result_code = 0 THEN "passed"
    ELSE IF result_code = 1 THEN "failed" ELSE "unknown"

ClassStr(result_code) ==
    IF result_code = 0 THEN "passed"
    ELSE IF result_code = 1 THEN "failed" ELSE "outlier"

\* A status builder in which a detected trap forces the class failed.
BuildStatusDictTrapFails(cls, output) ==
    [class |-> IF get_trap(cls, output) # << >> THEN "failed"
               ELSE ClassStr(get_result(cls, output)),
     SDC |-> get_sdc(cls, output),
     events |-> BuildEvents(cls, output)]

build_status_dict(cls, output) ==
    [class |-> ClassStr(get_result(cls, output)),
     SDC |-> get_sdc(cls, output),
     events |-> BuildEvents(cls, output)]

----------------------------------------------------------------------------
(* Inputs of one (log, specification) pair.                                *)

\* Specification files: the classifier names found in the lowercase base
\* name, and the text before the first '_' of the result file's base name.
\* parses: json.load accepts the content of the file.
InputFiles ==
    { [name |-> "coremark_bitflips.json", mentions |-> {"coremark"},
       head |-> "coremark", parses |-> TRUE],
      [name |-> "my_benchmark_coremark.json",
       mentions |-> {"coremark", "my_benchmark"}, head |-> "my",
       parses |-> TRUE],
      [name |-> "matmul_bitflips.json", mentions |-> {}, head |-> "matmul",
       parses |-> TRUE],
      [name |-> "coremark_broken.json", mentions |-> {"coremark"},
       head |-> "coremark", parses |-> FALSE] }

NoFile == [name |-> "", mentions |-> {}, head |-> "", parses |-> FALSE]

NameLen(name) == IF name = "coremark" THEN 8 ELSE 12

\* Test ids a specification may list.
ExpectedIds == { <<"coremark", <<"1">>>>, <<"coremark", <<"2">>>>,
                 <<"my_benchmark", <<"1">>>> }

BitPosition(id) == IF id[2] = <<"1">> THEN 3 ELSE 5

\* The specifications: a dict from test id to its own fields.
InputData == { [id \in S |-> [bit_position |-> BitPosition(id)]] :
               S \in SUBSET ExpectedIds }

\* First lines of a block: the lowercased group(1) of BENCHMARK_PATTERN (None
\* when the pattern does not match), whether TEST_NUMBER_PATTERN matches, and
\* its group(1) and group(2) (args = None when group 2 took no part in the
\* match).
FirstLine(btype, matched, num, args) ==
    [btype |-> btype, test_num_match |-> matched, num |-> num, args |-> args]

FirstLines ==
    { FirstLine("coremark", TRUE, <<"1">>, None),
      FirstLine("my_benchmark", TRUE, <<"1">>, " -v "),
      FirstLine("matmul", TRUE, <<"1", "a">>, None),
      FirstLine("my_benchmark", FALSE, << >>, None),
      FirstLine(None, TRUE, <<"a", "1">>, None),
      FirstLine(None, FALSE, << >>, None) }

\* Output texts of a block (sets of lines).
Outputs ==
    { {}, {"SUCCESS"}, {"SUCCESS", "exit status=1"},
      {"ERROR", "INCORRECT_RESULT"}, {"trap: scause 0x2", "hw-reset"},
      {"timed out", "\\x00", "exit status=1"} }

Blocks == { [first_line |-> f, output |-> o] : f \in FirstLines, o \in Outputs }

NoBlock == [first_line |-> FirstLine(None, FALSE, << >>, None), output |-> {"-"}]

----------------------------------------------------------------------------
(* ResultsParser.parse_output_file                                         *)

Digits == {"0", "1", "2", "3", "4", "5", "6", "7", "8", "9"}

\* ''.join(c for c in num_str if c.isdigit())
clean_test_number(num_str) == SelectSeq(num_str, LAMBDA c : c \in Digits)

\* str.strip() of the argument strings used here.
Strip(s) == IF s = " -v " THEN "-v" ELSE s

\* The names of the registry, in order, that occur in the file name.
DetectedBenchmarks(file) ==
    SelectSeq(ClassifierOrder, LAMBDA n : get_name(n) \in file.mentions)

\* max(detected_benchmarks, key=len): the first of the longest names.
LongestName(detected) ==
    LET best == CHOOSE i \in 1..Len(detected) :
                  /\ \A j \in 1..Len(detected) :
                        NameLen(detected[j]) <= NameLen(detected[i])
                  /\ \A j \in 1..(i - 1) :
                        NameLen(detected[j]) < NameLen(detected[i])
    IN  detected[best]

\* A choice that falls back on the first classifier of the registry.
FilenameClassifierFallback(file) ==
    LET detected == DetectedBenchmarks(file)
    IN  IF Len(detected) = 0 THEN ClassifierOrder[1]
        ELSE IF Len(detected) > 1 THEN LongestName(detected)
        ELSE detected[Len(detected)]

\* A choice that keeps the classifier an earlier call ended with.
FilenameClassifierCarried(file) ==
    LET detected == DetectedBenchmarks(file)
    IN  IF classifier # None THEN classifier
        ELSE IF Len(detected) = 0 THEN None
        ELSE IF Len(detected) > 1 THEN LongestName(detected)
        ELSE detected[Len(detected)]

\* Lines 177-206: the classifier chosen from the file name (None: no match).
FilenameClassifier(file) ==
    LET detected == DetectedBenchmarks(file)
    IN  IF Len(detected) = 0 THEN None
        ELSE IF Len(detected) > 1 THEN LongestName(detected)
        ELSE detected[Len(detected)]

\* A switch that does not look the benchmark type up in the registry.
SwitchedTypeUnchecked(current, first_line) ==
    IF first_line.btype # None /\ first_line.btype # current
    THEN first_line.btype
    ELSE current

\* A switch that is applied only to a block whose test number is found.
SwitchedTypeAfterMatch(current, first_line) ==
    IF /\ first_line.test_num_match
       /\ first_line.btype # None
       /\ first_line.btype # current
       /\ first_line.btype \in classifiers
    THEN first_line.btype
    ELSE current

\* Lines 229-241: the classifier active after the first line of a block.
SwitchedType(current, first_line) ==
    IF /\ first_line.btype # None
       /\ first_line.btype # current
       /\ first_line.btype \in classifiers
    THEN first_line.btype
    ELSE current

\* A loop body without the "continue" of line 246.
RecordBlockNoContinue(results, cls, b) ==
    Put(results, <<cls, clean_test_number(b.first_line.num)>>,
        [args |-> "", output |-> b.output,
         status |-> build_status_dict(cls, b.output)])

\* A loop body that stores a record without its status.
RecordBlockWithoutStatus(results, cls, b) ==
    IF ~b.first_line.test_num_match
    THEN results
    ELSE Put(results, <<cls, clean_test_number(b.first_line.num)>>,
             [args |-> "", output |-> b.output])

\* A loop body that keeps the first record stored under a test name.
RecordBlockFirstWins(results, cls, b) ==
    IF ~b.first_line.test_num_match
          \/ <<cls, clean_test_number(b.first_line.num)>> \in DOMAIN results
    THEN results
    ELSE Put(results, <<cls, clean_test_number(b.first_line.num)>>,
             [args |-> IF b.first_line.args # None /\ b.first_line.args # ""
                       THEN Strip(b.first_line.args) ELSE "",
              output |-> b.output,
              status |-> build_status_dict(cls, b.output)])

\* Lines 243-270: the results after one block, given the active classifier.
RecordBlock(results, cls, b) ==
    IF ~b.first_line.test_num_match
    THEN results
    ELSE LET test_num == clean_test_number(b.first_line.num)
             args == b.first_line.args
             test_name == <<cls, test_num>>
             result == [args |-> IF args # None /\ args # ""
                                 THEN Strip(args) ELSE "",
                        output |-> b.output,
                        status |-> build_status_dict(cls, b.output)]
         IN  Put(results, test_name, result)

\* A synthesized entry that carries the placeholder text as its output.
MissingEntryPlaceholder ==
    [args |-> "", output |-> {"Missing output data"}, status |-> EmptyDict]

\* Lines 272-284: the entries synthesized for expected ids without a record.
MissingEntry == [args |-> "", output |-> {}, status |-> EmptyDict]

\* A reconciliation that keeps only the expected ids.
FillMissingExpectedOnly(results, data) ==
    [k \in DOMAIN data |->
        IF k \in DOMAIN results THEN results[k] ELSE MissingEntry]

FillMissing(results, data) ==
    [k \in (DOMAIN results) \cup (DOMAIN data) |->
        IF k \in DOMAIN results THEN results[k] ELSE MissingEntry]

\* Lines 286-306: defaults for missing fields and the manual-check flag.
RequiredFields == {"args", "output", "status"}

\* A flagging that looks at the missing fields only, not at the output.
FlagRecordFieldsOnly(result) ==
    LET missing_fields == RequiredFields \ DOMAIN result
        filled == [f \in (DOMAIN result) \cup missing_fields |->
                     IF f \in DOMAIN result THEN result[f]
                     ELSE IF f = "args" THEN ""
                     ELSE IF f = "output" THEN {"Missing output data"}
                     ELSE EmptyDict]
    IN  Put(filled, "needs_manual_check", missing_fields # {})

FlagRecord(result) ==
    LET missing_fields == RequiredFields \ DOMAIN result
        filled == [f \in (DOMAIN result) \cup missing_fields |->
                     IF f \in DOMAIN result THEN result[f]
                     ELSE IF f = "args" THEN ""
                     ELSE IF f = "output" THEN {"Missing output data"}
                     ELSE EmptyDict]
        needs_manual_check == (missing_fields # {}) \/ (filled["output"] = {})
    IN  Put(filled, "needs_manual_check", needs_manual_check)

Reconciled(results, data) ==
    LET all == FillMissing(results, data)
    IN  [k \in DOMAIN all |-> FlagRecord(all[k])]

----------------------------------------------------------------------------
(* ResultsParser.update_json_file and ResultsParser.validate_parser        *)

\* An update that also writes the records no key of the specification names.
UpdatedJsonAllResults(data, results) ==
    [key \in (DOMAIN data) \cup (DOMAIN results) |->
        IF key \notin DOMAIN data THEN results[key]
        ELSE IF key \in DOMAIN results THEN Update(data[key], results[key])
        ELSE data[key]]

\* Lines 324-330: one entry per key of the specification, the specification's
\* own fields updated with the parsed result of that key, if any.
UpdatedJson(data, results) ==
    [key \in DOMAIN data |->
        IF key \in DOMAIN results THEN Update(data[key], results[key])
        ELSE data[key]]

ValidatorFields == {"args", "output", "status", "needs_manual_check"}

\* Lines 348-378: the verdict of validate_parser on the two files.
validate_parser(data, output_data) ==
    /\ Cardinality(DOMAIN data) = Cardinality(DOMAIN output_data)
    /\ \A key \in DOMAIN data : key \in DOMAIN output_data
    /\ \A key \in DOMAIN output_data :
          ValidatorFields \ DOMAIN output_data[key] = {}

\* Lines 356-377: what validate_parser prints on the two files.
ValidationMessages(data, output_data) ==
    IF Cardinality(DOMAIN data) # Cardinality(DOMAIN output_data)
    THEN <<"Error: Number of objects mismatch.">>
    ELSE IF \E key \in DOMAIN data : key \notin DOMAIN output_data
    THEN <<"Error: Missing object in output file">>
    ELSE IF \E key \in DOMAIN output_data :
               ValidatorFields \ DOMAIN output_data[key] # {}
    THEN Repeat("Error: Object is missing required fields",
                Cardinality({key \in DOMAIN output_data :
                                ValidatorFields \ DOMAIN output_data[key] # {}}))
    ELSE <<"Validation passed successfully!">>

----------------------------------------------------------------------------
(* ResultsDBConverter.import_json_to_db                                    *)

EmptyDb == [tests |-> EmptyDict, status |-> EmptyDict, traps |-> EmptyDict,
            halts |-> {}, hw_resets |-> {}, comm_failure |-> {},
            exec_failure |-> {}]

\* str(value) of a trap cause; the string fields are unchanged by str().
Str(v) == IF v = 0 THEN "0" ELSE IF v = 2 THEN "2" ELSE "?"

\* A Python bool bound to a BOOLEAN column: 1 or 0, and NULL for None.
SqlBool(d, k) == IF k \notin DOMAIN d THEN "NULL" ELSE IF d[k] THEN "1" ELSE "0"

\* The event types of a result-file entry.
EventTypes(test_data) ==
    LET events == Get(test_data["status"], "events", << >>)
    IN  {events[i].type : i \in 1..Len(events)}

TrapOf(test_data) ==
    LET events == test_data["status"]["events"]
        i == CHOOSE j \in 1..Len(events) :
                /\ events[j].type = "trap"
                /\ \A k \in (j + 1)..Len(events) : events[k].type # "trap"
    IN  [scause |-> Str(events[i].scause), sepc |-> events[i].sepc,
         stval |-> events[i].stval]

\* The ids of a result file whose entry holds an event of the given type.
IdsWith(data, type) == {id \in DOMAIN data : type \in EventTypes(data[id])}

\* Lines 121-170 for every entry of the file: INSERT OR REPLACE into tests and
\* status, and into the table of each event whose type the loop recognizes.
ImportedDb(old, data, benchmark) ==
    [tests |->
        Update(old.tests,
               [id \in DOMAIN data |->
                   [benchmark |-> benchmark,
                    bit_position |-> Get(data[id], "bit_position", None),
                    args |-> Get(data[id], "args", None),
                    output |-> Get(data[id], "output", None),
                    needs_manual_check |->
                        IF Get(data[id], "needs_manual_check", FALSE) = TRUE
                        THEN 1 ELSE 0]]),
     status |->
        Update(old.status,
               [id \in DOMAIN data |->
                   [class |-> Get(data[id]["status"], "class", None),
                    SDC |-> SqlBool(data[id]["status"], "SDC")]]),
     traps |->
        Update(old.traps,
               [id \in IdsWith(data, "trap") |-> TrapOf(data[id])]),
     halts |-> old.halts \cup IdsWith(data, "halt"),
     hw_resets |-> old.hw_resets \cup IdsWith(data, "hw_reset"),
     comm_failure |-> old.comm_failure \cup IdsWith(data, "comm_failure"),
     exec_failure |-> old.exec_failure \cup IdsWith(data, "exec_failure")]

----------------------------------------------------------------------------
(* ResultsAnalyzer: the SQL queries, evaluated on db for one benchmark.    *)
(* A comparison with a NULL column is not true, so a row whose class or    *)
(* SDC is NULL satisfies neither "= 'passed'" nor "SDC = 0" nor "SDC = 1". *)

Categories == {"passed", "failed", "outlier"}

\* tests t WHERE t.benchmark = ?
TestsOf(bm) == {id \in DOMAIN db.tests : db.tests[id].benchmark = bm}

\* tests t JOIN status s ON t.test_id = s.test_id WHERE t.benchmark = ?
Joined(bm) == {id \in TestsOf(bm) : id \in DOMAIN db.status}

\* ... AND s.class = category
InClass(bm, category) == {id \in Joined(bm) : db.status[id].class = category}

InTraps(id) == id \in DOMAIN db.traps
InHalts(id) == id \in db.halts
InComm(id) == id \in db.comm_failure
InExec(id) == id \in db.exec_failure
InHwResets(id) == id \in db.hw_resets
SdcIs(id, v) == db.status[id].SDC = v
ManualCheck(id, v) == db.tests[id].needs_manual_check = v

\* analyze_test_coverage()["total_tests"]
total_tests(bm) == Cardinality(TestsOf(bm))

\* _get_special_cases, lines 308-319: counts["passed"]["clean"]
HierarchyPassedClean(bm) ==
    Cardinality({id \in InClass(bm, "passed") :
        /\ SdcIs(id, "0")
        /\ ~InTraps(id) /\ ~InHalts(id) /\ ~InComm(id) /\ ~InHwResets(id)})

\* _get_special_cases, lines 322-335: counts["failed"]["clean"]
HierarchyFailedClean(bm) ==
    Cardinality({id \in InClass(bm, "failed") :
        /\ ~InTraps(id) /\ ~InHalts(id) /\ ~InComm(id) /\ ~InHwResets(id)
        /\ ~InExec(id)})

\* get_status_hierarchy_counts: _get_basic_status_counts,
\* _get_event_counts_by_status and _get_special_cases.
get_status_hierarchy_counts(bm) ==
    LET total(c) == Cardinality(InClass(bm, c))
        trap(c) == Cardinality({id \in InClass(bm, c) : InTraps(id)})
        halt(c) == Cardinality({id \in InClass(bm, c) : InHalts(id)})
        comm(c) == Cardinality({id \in InClass(bm, c) : InComm(id)})
        sdc(c) == Cardinality({id \in InClass(bm, c) : SdcIs(id, "1")})
    IN  [passed |->
            [clean |-> HierarchyPassedClean(bm), trap |-> trap("passed"),
             SDC |-> sdc("passed"), halt |-> halt("passed"),
             comm_failure |-> comm("passed"), total |-> total("passed")],
         failed |->
            [clean |-> HierarchyFailedClean(bm), trap |-> trap("failed"),
             SDC |-> sdc("failed"), halt |-> halt("failed"),
             comm_failure |-> comm("failed"),
             exec_failure |->
                Cardinality({id \in InClass(bm, "failed") : InExec(id)}),
             total |-> total("failed")],
         outlier |->
            [trap |-> trap("outlier"), SDC |-> sdc("outlier"),
             halt |-> halt("outlier"), comm_failure |-> comm("outlier"),
             total |-> total("outlier")]]

\* print_status_verification_table, combined_queries (lines 592-611):
\* raw_counts["<category>_<event>"]
CombinedCount(bm, category, event) ==
    Cardinality({id \in InClass(bm, category) :
        CASE event = "with_trap" -> InTraps(id)
          [] event = "halt" -> InHalts(id)
          [] event = "comm_failure" -> InComm(id)
          [] event = "SDC" -> SdcIs(id, "1")
          [] event = "exec_failure" -> InExec(id)
          [] event = "hw_reset" -> InHwResets(id)})

NoEventRow(id) ==
    /\ ~InTraps(id) /\ ~InHalts(id) /\ ~InComm(id) /\ ~InHwResets(id)
    /\ ~InExec(id)

\* clean_pass_query, clean_fail_query, clean_outlier_query (lines 612-651)
clean_pass(bm) ==
    Cardinality({id \in InClass(bm, "passed") : SdcIs(id, "0") /\ NoEventRow(id)})
clean_fail(bm) ==
    Cardinality({id \in InClass(bm, "failed") : NoEventRow(id)})
clean_outlier(bm) ==
    Cardinality({id \in InClass(bm, "outlier") : SdcIs(id, "0") /\ NoEventRow(id)})

CleanCount(bm, category) ==
    IF category = "passed" THEN clean_pass(bm)
    ELSE IF category = "failed" THEN clean_fail(bm) ELSE clean_outlier(bm)

B2I(b) == IF b THEN 1 ELSE 0

\* overlapping_queries (lines 840-880): raw_counts["<category>_overlap"]
OverlapCount(bm, category) ==
    Cardinality({id \in InClass(bm, category) :
        /\ db.status[id].SDC # "NULL"
        /\ B2I(InTraps(id)) + B2I(InHalts(id)) + B2I(InComm(id))
             + B2I(InHwResets(id)) + B2I(InExec(id)) + B2I(SdcIs(id, "1")) > 1})

\* total_<category>_combined (lines 836-838)
TotalCombined(bm, category) ==
    CombinedCount(bm, category, "with_trap") + CombinedCount(bm, category, "halt")
    + CombinedCount(bm, category, "comm_failure") + CleanCount(bm, category)
    + CombinedCount(bm, category, "SDC")
    + CombinedCount(bm, category, "exec_failure")
    + CombinedCount(bm, category, "hw_reset")

\* <category>_diff (lines 890-892)
OverlapDiff(bm, category) ==
    TotalCombined(bm, category) - Cardinality(InClass(bm, category))

Abs(n) == IF n < 0 THEN -n ELSE n

\* The "Overlap Match?" column (lines 904, 913, 922): TRUE is the check mark.
OverlapMatch(bm, category) ==
    Abs(OverlapDiff(bm, category) - OverlapCount(bm, category)) <= 1

\* key_comparisons (lines 937-946): description -> <<raw count, hierarchy count>>
key_comparisons(bm) ==
    LET h == get_status_hierarchy_counts(bm)
    IN  [passed_total |-> <<Cardinality(InClass(bm, "passed")), h.passed.total>>,
         passed_clean |-> <<clean_pass(bm), h.passed.clean>>,
         passed_trap |-> <<CombinedCount(bm, "passed", "with_trap"), h.passed.trap>>,
         passed_halt |-> <<CombinedCount(bm, "passed", "halt"), h.passed.halt>>,
         failed_total |-> <<Cardinality(InClass(bm, "failed")), h.failed.total>>,
         failed_clean |-> <<clean_fail(bm), h.failed.clean>>,
         failed_trap |-> <<CombinedCount(bm, "failed", "with_trap"), h.failed.trap>>,
         failed_halt |-> <<CombinedCount(bm, "failed", "halt"), h.failed.halt>>]

\* _print_strict_failures_table, queries 1-8 (lines 403-508): the test ids
\* each query counts.
StrictTrap(bm) ==
    {id \in Joined(bm) : /\ InTraps(id)
                         /\ ~InHalts(id) /\ ~InComm(id) /\ ~InExec(id)
                         /\ SdcIs(id, "0") /\ ManualCheck(id, 0)}
StrictHalt(bm) ==
    {id \in Joined(bm) : /\ InHalts(id)
                         /\ ~InTraps(id) /\ ~InComm(id) /\ ~InExec(id)
                         /\ SdcIs(id, "0") /\ ManualCheck(id, 0)}
StrictCommFailure(bm) ==
    {id \in Joined(bm) : /\ InComm(id)
                         /\ ~InTraps(id) /\ ~InHalts(id) /\ ~InExec(id)
                         /\ SdcIs(id, "0") /\ ManualCheck(id, 0)}
StrictSdc(bm) ==
    {id \in Joined(bm) : /\ SdcIs(id, "1")
                         /\ ~InTraps(id) /\ ~InHalts(id) /\ ~InComm(id)
                         /\ ~InExec(id) /\ ManualCheck(id, 0)}
StrictExecFailure(bm) ==
    {id \in Joined(bm) : /\ InExec(id)
                         /\ ~InTraps(id) /\ ~InHalts(id) /\ ~InComm(id)
                         /\ SdcIs(id, "0") /\ ManualCheck(id, 0)}
StrictMultipleEvents(bm) ==
    {id \in Joined(bm) :
        /\ ManualCheck(id, 0)
        /\ db.status[id].SDC # "NULL"
        /\ B2I(InTraps(id)) + B2I(InHalts(id)) + B2I(InComm(id))
             + B2I(InExec(id)) + B2I(SdcIs(id, "1")) > 1}
StrictNoEventsFailed(bm) ==
    {id \in InClass(bm, "failed") \cup InClass(bm, "outlier") :
        /\ ~InTraps(id) /\ ~InHalts(id) /\ ~InComm(id) /\ ~InExec(id)
        /\ SdcIs(id, "0") /\ ManualCheck(id, 0)}
StrictUncategorized(bm) == {id \in TestsOf(bm) : ManualCheck(id, 1)}

\* _print_strict_failures_table(counts, total_tests), lines 401-517, as
\* print_summary calls it: the row of counts and the two sides of the warning.
strict_failures_table(bm) ==
    LET clean_passed == get_status_hierarchy_counts(bm).passed.clean
        failed_with_trap == Cardinality(StrictTrap(bm))
        failed_halt == Cardinality(StrictHalt(bm))
        failed_comm_failure == Cardinality(StrictCommFailure(bm))
        wrong_results == Cardinality(StrictSdc(bm))
        exec_failure == Cardinality(StrictExecFailure(bm))
        multiple_events == Cardinality(StrictMultipleEvents(bm))
        no_events_failed == Cardinality(StrictNoEventsFailed(bm))
        uncategorized == Cardinality(StrictUncategorized(bm))
        others == multiple_events + no_events_failed
    IN  [trap |-> failed_with_trap, halt |-> failed_halt,
         comm_failure |-> failed_comm_failure, SDC |-> wrong_results,
         exec_failure |-> exec_failure, others |-> others,
         uncategorized |-> uncategorized,
         total_failed |-> total_tests(bm) - clean_passed,
         sum_of_categories |->
            failed_with_trap + failed_halt + failed_comm_failure + wrong_results
            + exec_failure + others + uncategorized]

\* Line 515: the category-sum warning is printed.
CategorySumWarning(bm) ==
    strict_failures_table(bm).sum_of_categories
        # strict_failures_table(bm).total_failed

\* get_available_benchmarks()
get_available_benchmarks == {db.tests[id].benchmark : id \in DOMAIN db.tests}

----------------------------------------------------------------------------
(* The command-line switches of rapid.py.                                  *)

FlagNames == {"monitor", "inject", "full_pipeline", "parse_logs",
              "import_results", "analyze", "list_classifiers",
              "list_benchmarks"}

\* argparse store_true switches: every combination can be given.
Flags == [FlagNames -> BOOLEAN]

NoFlags == [f \in FlagNames |-> FALSE]

----------------------------------------------------------------------------
(* The pipeline for one (log, specification) pair.                         *)

Init ==
    /\ pc = "idle"
    /\ input_filename = NoFile
    /\ input_data = EmptyDict
    /\ benchmark_type = ""
    /\ classifier = None
    /\ test_results = EmptyDict
    /\ block = NoBlock
    /\ nblocks = 0
    /\ results_file = EmptyDict
    /\ db = EmptyDb
    /\ content = << >>
    /\ test_blocks = << >>
    /\ status_dict = EmptyDict
    /\ registry = EmptyDict
    /\ custom_files = << >>
    /\ custom_dirs = << >>
    /\ diagnostics = {}
    /\ nloaded = 0
    /\ npairs = 0
    /\ parsed_files = 0
    /\ written = {}
    /\ errors = << >>
    /\ printed = << >>
    /\ nimports = 0
    /\ flags = NoFlags
    /\ started = << >>
    /\ returned = << >>
    /\ exit_code = << >>
    /\ file_path = << >>
    /\ original_data = << >>
    /\ num_flips = 0
    /\ rand_bits = << >>
    /\ bitflips = EmptyDict
    /\ out_files = EmptyDict
    /\ alert_interval = 0
    /\ cur_time = 0
    /\ old_data = ""
    /\ read_data = ""
    /\ stuck = FALSE
    /\ last_alert_time = 0
    /\ alert_times = << >>
    /\ silent_polls = 0

\* json.load(f) of a specification file returns (it raises otherwise).
JsonLoads(file) == file.parses

\* An update_json_file that writes an empty result file for a specification
\* it cannot read.
UpdateNeverRaises(file) == FALSE

\* update_json_file, lines 321-322: json.load raises before anything is
\* written.
UpdateRaises(file) == ~JsonLoads(file)

\* results_json_file: the result file of a specification file.
results_json_file(file) == <<file.name, "_results.json">>

\* The messages of lines 193-212: the choice among several detected names,
\* the missing classifier, the chosen classifier, the unreadable specification.
SelectionMessages(file) ==
    LET detected == DetectedBenchmarks(file)
    IN  IF Len(detected) = 0
        THEN <<"Error: No suitable classifier found">>
        ELSE (IF Len(detected) > 1
              THEN <<"Multiple benchmark types detected in filename">>
              ELSE << >>)
             \o <<"Using classifier">>
             \o (IF JsonLoads(file) THEN << >>
                 ELSE <<"Error reading input JSON file">>)

\* parse_output_file, lines 177-220: a call starts from its own empty locals,
\* chooses the classifier from the file name (NoSuitableClassifierError when
\* there is none) and loads the specification (return {} when it cannot be
\* read).  The loop variables keep the values of the call before until the
\* loop assigns them.
SelectClassifier ==
    /\ pc = "idle"
    /\ \E file \in InputFiles, data \in InputData :
          LET cls == FilenameClassifier(file)
          IN  /\ input_filename' = file
              /\ classifier' = cls
              /\ benchmark_type' = IF cls = None THEN "" ELSE get_name(cls)
              /\ input_data' = IF cls = None \/ ~JsonLoads(file)
                                THEN EmptyDict ELSE data
              /\ pc' = IF cls = None THEN "no_classifier"
                       ELSE IF ~JsonLoads(file) THEN "parsed" ELSE "blocks"
              /\ errors' = IF cls = None
                            THEN Append(errors, "NoSuitableClassifierError")
                            ELSE errors
              /\ printed' = SelectionMessages(file)
    /\ test_results' = EmptyDict
    /\ nblocks' = 0
    /\ UNCHANGED <<block, results_file, db, content, test_blocks,
                   status_dict, regVars, npairs, parsed_files, written,
                   toolVars>>

\* parse_output_file, lines 222-270: one iteration of the loop over the blocks.
ProcessBlock ==
    /\ pc = "blocks"
    /\ nblocks < MaxBlocks
    /\ \E b \in Blocks :
          LET cls == SwitchedType(benchmark_type, b.first_line)
          IN  /\ block' = b
              /\ benchmark_type' = cls
              /\ classifier' = cls
              /\ test_results' = RecordBlock(test_results, cls, b)
              /\ status_dict' = IF b.first_line.test_num_match
                                 THEN build_status_dict(cls, b.output)
                                 ELSE status_dict
    /\ nblocks' = nblocks + 1
    /\ UNCHANGED <<pc, input_filename, input_data, results_file, db, content,
                   test_blocks, regVars, batchVars, printed, toolVars>>

\* The warnings of lines 275 and 292: one for every expected id without a
\* record, one for every record that lacks a required field.
ReconcileMessages(results, data) ==
    LET all == FillMissing(results, data)
    IN  Repeat("Warning: Test not found in log file",
               Cardinality(DOMAIN data \ DOMAIN results))
        \o Repeat("Warning: Test is missing required fields",
                  Cardinality({k \in DOMAIN all :
                                  RequiredFields \ DOMAIN all[k] # {}}))

\* parse_output_file, lines 272-308: after the last block, fill in the missing
\* entries, flag the records and return.
Reconcile ==
    /\ pc = "blocks"
    /\ test_results' = Reconciled(test_results, input_data)
    /\ printed' = printed \o ReconcileMessages(test_results, input_data)
    /\ pc' = "parsed"
    /\ UNCHANGED <<input_filename, input_data, benchmark_type, classifier, block,
                   nblocks, results_file, db, content, test_blocks, status_dict,
                   regVars, batchVars, toolVars>>

\* process_log_file, lines 408-411, and its caller: update_json_file reads
\* the specification again (the exception of json.load leaves the function
\* before the result file is opened), writes the result file, validate_parser
\* prints its verdict, and the caller counts the pair.
UpdateJsonFile ==
    /\ pc = "parsed"
    /\ IF ~UpdateRaises(input_filename)
       THEN /\ results_file' = UpdatedJson(input_data, test_results)
            /\ written' = written \cup {results_json_file(input_filename)}
            /\ printed' = printed \o ValidationMessages(input_data,
                                                        results_file')
            /\ parsed_files' = parsed_files + 1
            /\ pc' = "written"
            /\ UNCHANGED errors
       ELSE /\ pc' = "failed"
            /\ errors' = Append(errors, "JSONDecodeError")
            /\ UNCHANGED <<results_file, written, parsed_files, printed>>
    /\ UNCHANGED <<input_filename, input_data, benchmark_type, classifier,
                   test_results, block, nblocks, db, content, test_blocks,
                   status_dict, regVars, npairs, toolVars>>

\* import_json_to_db on the result file of the pair.
ImportJsonToDb ==
    /\ pc = "written"
    /\ db' = ImportedDb(db, results_file, input_filename.head)
    /\ pc' = "imported"
    /\ UNCHANGED <<input_filename, input_data, benchmark_type, classifier,
                   test_results, block, nblocks, results_file, content,
                   test_blocks, status_dict, regVars, batchVars, printed,
                   toolVars>>

Next ==
    \/ SelectClassifier
    \/ ProcessBlock
    \/ Reconcile
    \/ UpdateJsonFile
    \/ ImportJsonToDb

Spec == Init /\ [][Next]_vars

----------------------------------------------------------------------------
(* parse_logs in directory mode: the loop over the pairs of a batch.       *)

\* rapid.py, lines 292-303: the pair is finished (its result file written, or
\* its exception caught and printed) and the loop goes on to the next pair.
\* The call for the pair has returned and its dicts are gone with it; the
\* result file of the next pair is not written yet.  The classifier and the
\* block the call ended with are kept, as the values a later call would see
\* if the parser object held them.
NextPair ==
    /\ pc \in {"written", "no_classifier", "failed"}
    /\ npairs + 1 < MaxPairs
    /\ npairs' = npairs + 1
    /\ pc' = "idle"
    /\ input_data' = EmptyDict
    /\ test_results' = EmptyDict
    /\ nblocks' = 0
    /\ results_file' = EmptyDict
    /\ status_dict' = EmptyDict
    /\ printed' = << >>
    /\ UNCHANGED <<input_filename, benchmark_type, classifier, block, db,
                   content, test_blocks, regVars, parsed_files, written,
                   errors, toolVars>>

NextBatch ==
    \/ SelectClassifier
    \/ ProcessBlock
    \/ Reconcile
    \/ UpdateJsonFile
    \/ NextPair

SpecBatch == Init /\ [][NextBatch]_vars

----------------------------------------------------------------------------
(* The status builder on any classifier of the registry and any text.      *)

\* parse_output_file, line 262: _build_status_dict(classifier, full_output).
BuildStatusDict ==
    /\ pc = "idle"
    /\ \E cls \in classifiers, output \in SUBSET Lines :
          /\ classifier' = cls
          /\ block' = [first_line |-> FirstLine(cls, TRUE, <<"1">>, None),
                       output |-> output]
          /\ status_dict' = build_status_dict(cls, output)
    /\ pc' = "status"
    /\ UNCHANGED <<input_filename, input_data, benchmark_type, test_results,
                   nblocks, results_file, db, content, test_blocks, regVars,
                   batchVars, printed, toolVars>>

NextStatus == BuildStatusDict

SpecStatus == Init /\ [][NextStatus]_vars

----------------------------------------------------------------------------
(* ResultsParser.get_all_classifiers: the construction of the registry.    *)

\* The operations _build_status_dict and parse_output_file call on a
\* classifier.
CapabilitySet ==
    {"get_name", "get_trap", "get_trap_address", "get_trap_val", "get_halt",
     "get_comm_failure", "get_exec_failure", "get_hw_reset", "get_sdc",
     "get_result"}

\* The abstract methods of BenchmarkClassifierInterface.
AbstractMethods ==
    {"get_name", "get_trap", "get_trap_address", "get_halt",
     "get_comm_failure", "get_exec_failure", "get_hw_reset", "get_sdc",
     "get_result"}

\* Python files a user may pass: whether the module holds a subclass of the
\* interface, the name its constructor sets and the methods it defines.
ClassifierFiles ==
    { [file |-> "a_full.py", has_class |-> TRUE, name |-> "CoreMark",
       methods |-> CapabilitySet],
      [file |-> "e_dup.py", has_class |-> TRUE, name |-> "coremark",
       methods |-> CapabilitySet],
      [file |-> "my_classifier.py", has_class |-> TRUE, name |-> "my_benchmark",
       methods |-> CapabilitySet],
      [file |-> "b_nosdc.py", has_class |-> TRUE, name |-> "nosdc",
       methods |-> CapabilitySet \ {"get_sdc"}],
      [file |-> "c_notrapval.py", has_class |-> TRUE, name |-> "notrapval",
       methods |-> CapabilitySet \ {"get_trap_val"}],
      [file |-> "d_empty.py", has_class |-> FALSE, name |-> "",
       methods |-> {}] }

RECURSIVE FileLists(_)
FileLists(n) ==
    IF n = 0 THEN { << >> }
    ELSE FileLists(n - 1)
         \cup { Append(l, f) : l \in FileLists(n - 1), f \in ClassifierFiles }

\* str.lower() of a classifier name.
Lower(name) == IF name = "CoreMark" THEN "coremark" ELSE name

\* load_external_classifier: the class of the module is instantiated (the
\* TypeError of an abstract class is caught), or a message is printed and
\* None returned.
load_external_classifier(src) ==
    IF ~src.has_class
    THEN [classifier |-> FALSE, message |-> "No valid classifier found"]
    ELSE IF ~(AbstractMethods \subseteq src.methods)
    THEN [classifier |-> FALSE, message |-> "Error loading classifier"]
    ELSE [classifier |-> TRUE, message |-> "Loaded external classifier"]

\* A registration that keeps the classifier already stored under the name.
RegisterFirstWins(reg, src) ==
    IF ~load_external_classifier(src).classifier THEN reg
    ELSE IF Lower(src.name) \in DOMAIN reg THEN reg
    ELSE Put(reg, Lower(src.name), src)

\* Lines 97-99 and 107-109: classifiers[classifier.name.lower()] = classifier
Register(reg, src) ==
    IF load_external_classifier(src).classifier
    THEN Put(reg, Lower(src.name), src)
    ELSE reg

\* The files in the order get_all_classifiers loads them: the explicit files,
\* then the files of the directory scans.
LoadOrder == custom_files \o custom_dirs

\* get_all_classifiers is called with its two lists.
StartRegistry ==
    /\ pc = "idle"
    /\ \E files \in FileLists(MaxSources), dirs \in FileLists(MaxSources) :
          /\ custom_files' = files
          /\ custom_dirs' = dirs
    /\ registry' = EmptyDict
    /\ diagnostics' = {}
    /\ nloaded' = 0
    /\ pc' = "loading"
    /\ UNCHANGED <<input_filename, input_data, benchmark_type, classifier,
                   test_results, block, nblocks, results_file, db, content,
                   test_blocks, status_dict, batchVars, printed, toolVars>>

\* One iteration of the loop over custom_files or of the loops over
\* custom_dirs.
LoadClassifier ==
    /\ pc = "loading"
    /\ nloaded < Len(LoadOrder)
    /\ LET src == LoadOrder[nloaded + 1]
       IN  /\ registry' = Register(registry, src)
           /\ diagnostics' =
                 IF load_external_classifier(src).classifier THEN diagnostics
                 ELSE diagnostics \cup {src.file}
    /\ nloaded' = nloaded + 1
    /\ UNCHANGED <<pc, input_filename, input_data, benchmark_type, classifier,
                   test_results, block, nblocks, results_file, db, content,
                   test_blocks, status_dict, custom_files, custom_dirs,
                   batchVars, printed, toolVars>>

\* Line 111: return classifiers
ReturnRegistry ==
    /\ pc = "loading"
    /\ nloaded = Len(LoadOrder)
    /\ pc' = "registered"
    /\ UNCHANGED <<input_filename, input_data, benchmark_type, classifier,
                   test_results, block, nblocks, results_file, db, content,
                   test_blocks, status_dict, regVars, batchVars, printed,
                   toolVars>>

NextRegistry == StartRegistry \/ LoadClassifier \/ ReturnRegistry

SpecRegistry == Init /\ [][NextRegistry]_vars

----------------------------------------------------------------------------
(* The tokenizer of parse_output_file on a raw log text.                   *)

Tokens == {"NL", "MK", "CH"}

RECURSIVE TextsOfLen(_)
TextsOfLen(n) ==
    IF n = 0 THEN { << >> }
    ELSE { Append(t, c) : t \in TextsOfLen(n - 1), c \in Tokens }

Texts == UNION { TextsOfLen(n) : n \in 0..MaxLen }

\* '\n' + TEST_BLOCK_MARKER
Separator == <<"NL", "MK">>

StartsWith(text, sep) ==
    /\ Len(text) >= Len(sep)
    /\ SubSeq(text, 1, Len(sep)) = sep

\* str.split(sep): the pieces between the occurrences of sep, found from the
\* left and not overlapping.
RECURSIVE SplitFrom(_, _, _)
SplitFrom(text, sep, piece) ==
    IF text = << >> THEN << piece >>
    ELSE IF StartsWith(text, sep)
         THEN << piece >> \o SplitFrom(SubSeq(text, Len(sep) + 1, Len(text)), sep, << >>)
         ELSE SplitFrom(Tail(text), sep, Append(piece, Head(text)))

\* Line 219: content.split(f'\n{self.TEST_BLOCK_MARKER}')
SplitContent(text) == SplitFrom(text, Separator, << >>)

\* Line 222: the blocks the loop visits, test_blocks[1:]
VisitedBlocks(blocks) == SubSeq(blocks, 2, Len(blocks))

\* parse_output_file, lines 215-216: read the log.
ReadLog ==
    /\ pc = "idle"
    /\ \E text \in Texts : content' = text
    /\ pc' = "read"
    /\ UNCHANGED <<input_filename, input_data, benchmark_type, classifier,
                   test_results, block, nblocks, results_file, db, test_blocks,
                   status_dict, regVars, batchVars, printed, toolVars>>

\* parse_output_file, line 219: split the log into blocks.
SplitBlocks ==
    /\ pc = "read"
    /\ test_blocks' = SplitContent(content)
    /\ pc' = "split"
    /\ UNCHANGED <<input_filename, input_data, benchmark_type, classifier,
                   test_results, block, nblocks, results_file, db, content,
                   status_dict, regVars, batchVars, printed, toolVars>>

NextTok == ReadLog \/ SplitBlocks

SpecTok == Init /\ [][NextTok]_vars

----------------------------------------------------------------------------
(* The records of the data model, as the claims speak of them.             *)

\* The event kind an event type of the result file stands for.
KindOf(type) == IF type = "hw-reset" THEN "hw_reset" ELSE type

RecordEvents(rec) == Get(rec["status"], "events", << >>)
RecordKinds(rec) == {KindOf(RecordEvents(rec)[i].type) : i \in 1..Len(RecordEvents(rec))}
RecordSdc(rec) == "SDC" \in DOMAIN rec["status"] /\ rec["status"]["SDC"]
RecordClass(rec) == Get(rec["status"], "class", None)

\* The benchmark the current result file is imported under.
Benchmark == input_filename.head

\* The records of the imported file that are of the given class.
RecordsOfClass(category) ==
    {id \in DOMAIN results_file : RecordClass(results_file[id]) = category}

\* A record is clean iff its event list is empty and SDC is false.
IsClean(rec) == RecordKinds(rec) = {} /\ ~RecordSdc(rec)

----------------------------------------------------------------------------
(* Claims.                                                                 *)

\* C1: for every record set the strict-failures categories add up to
\* total_tests - clean_passed, so the category-sum warning is never printed.
C1_CategorySumMatches ==
    pc = "imported" =>
        /\ strict_failures_table(Benchmark).sum_of_categories
             = strict_failures_table(Benchmark).total_failed
        /\ ~CategorySumWarning(Benchmark)

\* C2 (as claimed): the record set returned by parse_output_file has exactly
\* as many records as the specification has keys.
C2_ReturnedSizeIsExpectedSize ==
    pc = "parsed" =>
        Cardinality(DOMAIN test_results) = Cardinality(DOMAIN input_data)

\* C2 (amended): reconciliation adds exactly the expected ids that have no
\* parsed record and removes nothing, so the returned set holds the parsed
\* names and the expected ids: at least |E| records, and more than |E| when a
\* parsed name is not an expected id.
C2_ReturnedKeysAreParsedAndExpected ==
    [][(pc = "blocks" /\ pc' = "parsed") =>
          /\ DOMAIN test_results' = (DOMAIN test_results) \cup (DOMAIN input_data)
          /\ Cardinality(DOMAIN test_results')
               = Cardinality(DOMAIN input_data)
                 + Cardinality((DOMAIN test_results) \ (DOMAIN input_data))]_vars

\* C2 witness: a returned set that holds a filled-in expected id and a parsed
\* name that is not expected.
C2_Witness ==
    /\ pc = "parsed"
    /\ \E k \in DOMAIN test_results : k \notin DOMAIN input_data
    /\ \E k \in DOMAIN input_data : test_results[k]["status"] = EmptyDict

\* C3: for each class the sum of the per-event counts minus the class total
\* equals the number of records with two or more simultaneous events, and a
\* mismatch of any size is shown as a mismatch.
C3_OverlapCheckHolds ==
    pc = "imported" =>
        \A c \in Categories :
            /\ OverlapDiff(Benchmark, c) = OverlapCount(Benchmark, c)
            /\ OverlapMatch(Benchmark, c)
                 <=> (OverlapDiff(Benchmark, c) = OverlapCount(Benchmark, c))

\* C4 (as claimed): every record of the reconciled output, parsed or
\* synthesized, has a status class, one of passed, failed, outlier.
C4_EveryRecordHasOneClass ==
    pc = "parsed" =>
        \A k \in DOMAIN test_results :
            /\ "class" \in DOMAIN test_results[k]["status"]
            /\ test_results[k]["status"]["class"] \in Categories

\* C4 (amended): in the reconciled output every record built from a parsed
\* block has a status class, one of passed, failed, outlier, and every record
\* synthesized for a missing expected id has an empty status, without class.
C4_ParsedRecordsHaveOneClass ==
    [][(pc = "blocks" /\ pc' = "parsed") =>
          \A k \in DOMAIN test_results' :
              IF k \in DOMAIN test_results
              THEN /\ "class" \in DOMAIN test_results'[k]["status"]
                   /\ test_results'[k]["status"]["class"] \in Categories
              ELSE test_results'[k]["status"] = EmptyDict]_vars

\* C4 witness: a reconciled output with a record of each class and a
\* synthesized record.
C4_Witness ==
    /\ pc = "parsed"
    /\ \E k \in DOMAIN test_results : RecordClass(test_results[k]) = "outlier"
    /\ \E k \in DOMAIN test_results : RecordClass(test_results[k]) = "passed"
    /\ \E k \in DOMAIN test_results : test_results[k]["status"] = EmptyDict

\* The test ids the strict-failures table counts as exactly the kind K.
StrictBucket(bm, K) ==
    CASE K = "trap" -> StrictTrap(bm)
      [] K = "halt" -> StrictHalt(bm)
      [] K = "comm_failure" -> StrictCommFailure(bm)
      [] K = "exec_failure" -> StrictExecFailure(bm)

\* C5: a record without manual check is in the exactly-K bucket iff K is its
\* only event (hw_reset counts as an event) and SDC is false, and in the
\* exactly-SDC bucket iff SDC is true and it has no event.
C5_ExactlyOneBuckets ==
    pc = "imported" =>
        \A id \in DOMAIN results_file :
            LET rec == results_file[id]
            IN  rec["needs_manual_check"] = FALSE =>
                  /\ \A K \in {"trap", "halt", "comm_failure", "exec_failure"} :
                        id \in StrictBucket(Benchmark, K)
                          <=> (RecordKinds(rec) = {K} /\ ~RecordSdc(rec))
                  /\ id \in StrictSdc(Benchmark)
                          <=> (RecordSdc(rec) /\ RecordKinds(rec) = {})

\* C6: for each class the reported clean count is the number of records of
\* the class with an empty event list and SDC false.
C6_CleanCountIsCleanRecords ==
    pc = "imported" =>
        LET clean(c) == Cardinality({id \in RecordsOfClass(c) :
                                        IsClean(results_file[id])})
            h == get_status_hierarchy_counts(Benchmark)
        IN  /\ \A c \in Categories : CleanCount(Benchmark, c) = clean(c)
            /\ h.passed.clean = clean("passed")
            /\ h.failed.clean = clean("failed")

\* C7: on every compared key the hierarchy count equals the raw count.
C7_HierarchyMatchesRaw ==
    pc = "imported" =>
        LET k == key_comparisons(Benchmark)
        IN  \A key \in DOMAIN k : k[key][1] = k[key][2]

\* C8: a block naming a registered classifier other than the active one makes
\* it the active one, for this block's record and until another switch; a
\* block naming no registered classifier leaves the active one in place.
C8_ClassifierSwitch ==
    [][(pc = "blocks" /\ pc' = "blocks") =>
          LET t == block'.first_line.btype
              line == block'.first_line
          IN  /\ (t # None /\ t # classifier /\ t \in classifiers)
                    => (classifier' = t /\ benchmark_type' = t)
              /\ (t = None \/ t = classifier \/ t \notin classifiers)
                    => (classifier' = classifier /\ benchmark_type' = benchmark_type)
              /\ classifier' \in classifiers
              /\ line.test_num_match =>
                    LET name == <<benchmark_type', clean_test_number(line.num)>>
                    IN  /\ name \in DOMAIN test_results'
                        /\ test_results'[name]["status"]
                             = build_status_dict(classifier', block'.output)]_vars

\* C8 witness: after a switch away from the file name's classifier, a block
\* of an unregistered benchmark type was handled and the switch is kept.
C8_Witness ==
    /\ pc = "blocks"
    /\ nblocks = 2
    /\ block.first_line.btype = "matmul"
    /\ classifier # FilenameClassifier(input_filename)
    /\ classifier \in classifiers

\* C9: n occurrences of the block marker in the log yield n blocks.
C9_OneBlockPerMarker ==
    pc = "split" =>
        Len(VisitedBlocks(test_blocks))
          = Cardinality({i \in 1..Len(content) : content[i] = "MK"})

\* C10: a block whose first line fails the test-number pattern adds no record
\* and changes none; an expected id without a parsed record gets only the
\* synthesized entry (empty args and output, empty status, manual check).
C10_DroppedBlockLeavesNoRecord ==
    [][/\ (pc = "blocks" /\ pc' = "blocks" /\ ~block'.first_line.test_num_match)
            => test_results' = test_results
       /\ (pc = "blocks" /\ pc' = "parsed")
            => \A k \in (DOMAIN input_data) \ (DOMAIN test_results) :
                  test_results'[k] = Put(MissingEntry, "needs_manual_check", TRUE)
      ]_vars

\* C10 witness: the only block of the log was dropped and the expected ids
\* were filled in as missing entries.
C10_Witness ==
    /\ pc = "parsed"
    /\ nblocks = 1
    /\ ~block.first_line.test_num_match
    /\ DOMAIN input_data # {}
    /\ DOMAIN test_results = DOMAIN input_data

\* C11: every expected id absent from the parsed log gets a record with args
\* "", output "" and needs_manual_check = true.
C11_MissingIdIsSynthesizedAndFlagged ==
    [][(pc = "blocks" /\ pc' = "parsed") =>
          \A k \in (DOMAIN input_data) \ (DOMAIN test_results) :
              /\ k \in DOMAIN test_results'
              /\ test_results'[k]["args"] = ""
              /\ test_results'[k]["output"] = {}
              /\ test_results'[k]["needs_manual_check"] = TRUE]_vars

\* C11 witness: of two expected ids one was parsed from the log and the other
\* was synthesized and flagged.
C11_Witness ==
    /\ pc = "parsed"
    /\ \E k \in DOMAIN input_data : RecordClass(test_results[k]) \in Categories
    /\ \E k \in DOMAIN input_data :
          /\ test_results[k]["status"] = EmptyDict
          /\ test_results[k]["args"] = ""
          /\ test_results[k]["output"] = {}
          /\ test_results[k]["needs_manual_check"] = TRUE

\* Result dicts that lack one or more of the required fields.
PartialResults ==
    { [args |-> "-v", status |-> EmptyDict],
      [status |-> build_status_dict("my_benchmark", {"SUCCESS"})],
      [args |-> ""],
      [output |-> {"SUCCESS"}, args |-> ""] }

\* C12: every reconciled record whose output is empty has needs_manual_check
\* = true, a parsed record with a complete status included, and so has every
\* record whose output field is absent.
C12_EmptyOutputIsFlagged ==
    /\ pc = "parsed" =>
          \A k \in DOMAIN test_results :
              test_results[k]["output"] = {}
                 => test_results[k]["needs_manual_check"] = TRUE
    /\ \A r \in PartialResults :
          "output" \notin DOMAIN r => FlagRecord(r)["needs_manual_check"] = TRUE

\* C12 witness: a record parsed from a block without output lines has a
\* class, an empty output and the manual-check flag.
C12_Witness ==
    /\ pc = "parsed"
    /\ \E k \in DOMAIN test_results :
          /\ RecordClass(test_results[k]) \in Categories
          /\ test_results[k]["output"] = {}
          /\ test_results[k]["needs_manual_check"] = TRUE

\* The fixed order of the event kinds.
KindOrder == <<"trap", "halt", "comm_failure", "exec_failure", "hw_reset">>

KindIndex(kind) == CHOOSE i \in 1..Len(KindOrder) : KindOrder[i] = kind

\* The predicate of the classifier that stands for an event kind.
Detected(cls, output, kind) ==
    CASE kind = "trap" -> get_trap(cls, output) # << >>
      [] kind = "halt" -> get_halt(cls, output)
      [] kind = "comm_failure" -> get_comm_failure(cls, output)
      [] kind = "exec_failure" -> get_exec_failure(cls, output)
      [] kind = "hw_reset" -> get_hw_reset(cls, output)

\* C13: the event list holds at most one event of each kind, in the order
\* trap, halt, comm_failure, exec_failure, hw_reset, with an event for each
\* predicate that is true and none for one that is false.
C13_EventsInFixedOrder ==
    pc = "status" =>
        LET events == status_dict.events
            kind(i) == KindOf(events[i].type)
        IN  /\ \A i \in 1..Len(events) :
                  kind(i) \in {KindOrder[n] : n \in 1..Len(KindOrder)}
            /\ \A i, j \in 1..Len(events) :
                  i < j => KindIndex(kind(i)) < KindIndex(kind(j))
            /\ \A n \in 1..Len(KindOrder) :
                  (\E i \in 1..Len(events) : kind(i) = KindOrder[n])
                    <=> Detected(classifier, block.output, KindOrder[n])

\* C13 witness: a status whose event list holds all five kinds.
C13_Witness ==
    /\ pc = "status"
    /\ Len(status_dict.events) = 5

\* C14: the class is passed for the result 0, failed for 1 and outlier for
\* every other result, whatever events and SDC were detected.
C14_ClassFollowsResult ==
    pc = "status" =>
        LET result_code == get_result(classifier, block.output)
        IN  status_dict.class = IF result_code = 0 THEN "passed"
                                ELSE IF result_code = 1 THEN "failed"
                                ELSE "outlier"

\* C14 witness: a passed status that carries a trap event and SDC.
C14_Witness ==
    /\ pc = "status"
    /\ status_dict.class = "passed"
    /\ status_dict.SDC = TRUE
    /\ \E i \in 1..Len(status_dict.events) : status_dict.events[i].type = "trap"

\* The trap events of the status built last.
TrapEvents ==
    SelectSeq(status_dict.events, LAMBDA e : e.type = "trap")

\* C15 (as claimed): a trap event is appended exactly when get_trap returns a
\* value; it has the fields scause, sepc and stval, and sepc and stval are
\* what get_trap_address and get_trap_val returned.
C15_TrapFieldsAreReturnedValues ==
    pc = "status" =>
        LET trap_value == get_trap(classifier, block.output)
        IN  /\ Len(TrapEvents) = IF trap_value # << >> THEN 1 ELSE 0
            /\ trap_value # << >> =>
                  /\ DOMAIN TrapEvents[1] = {"type", "scause", "sepc", "stval"}
                  /\ TrapEvents[1].scause = trap_value[1]
                  /\ TrapEvents[1].sepc
                        = get_trap_address(classifier, block.output)
                  /\ TrapEvents[1].stval = get_trap_val(classifier, block.output)

\* C15 (amended): a trap event is appended exactly when get_trap returns a
\* value, the cause 0 included; it has the fields scause, sepc and stval, and
\* sepc and stval are what get_trap_address and get_trap_val returned when
\* that is a non-empty value, and null when it is None or the empty string.
C15_TrapFieldsAreNonEmptyValues ==
    pc = "status" =>
        LET trap_value == get_trap(classifier, block.output)
            trap_addr == get_trap_address(classifier, block.output)
            trap_val == get_trap_val(classifier, block.output)
        IN  /\ Len(TrapEvents) = IF trap_value # << >> THEN 1 ELSE 0
            /\ trap_value # << >> =>
                  /\ DOMAIN TrapEvents[1] = {"type", "scause", "sepc", "stval"}
                  /\ TrapEvents[1].scause = trap_value[1]
                  /\ TrapEvents[1].sepc
                        = IF trap_addr \in {None, ""} THEN None ELSE trap_addr
                  /\ TrapEvents[1].stval
                        = IF trap_val \in {None, ""} THEN None ELSE trap_val

\* C15 witness: a trap of cause 0 whose address came back as the empty string
\* is recorded with a null sepc.
C15_Witness ==
    /\ pc = "status"
    /\ get_trap(classifier, block.output) = <<0>>
    /\ get_trap_address(classifier, block.output) = ""
    /\ Len(TrapEvents) = 1
    /\ TrapEvents[1].scause = 0
    /\ TrapEvents[1].sepc = None

\* C16: a classifier that lacks an operation of the capability set is skipped
\* with a diagnostic and never registered, and the classifiers that have all
\* of them are returned.
C16_IncompleteClassifierIsSkipped ==
    pc = "registered" =>
        \A i \in 1..Len(LoadOrder) :
            LET src == LoadOrder[i]
            IN  IF src.has_class /\ ~(CapabilitySet \subseteq src.methods)
                THEN /\ src.file \in diagnostics
                     /\ \A key \in DOMAIN registry : registry[key] # src
                ELSE src.has_class => Lower(src.name) \in DOMAIN registry

\* The last position of the load order that holds a loadable classifier of
\* the given lowercase name.
LastLoaded(key) ==
    CHOOSE i \in 1..Len(LoadOrder) :
        /\ load_external_classifier(LoadOrder[i]).classifier
        /\ Lower(LoadOrder[i].name) = key
        /\ \A j \in (i + 1)..Len(LoadOrder) :
              ~(/\ load_external_classifier(LoadOrder[j]).classifier
                /\ Lower(LoadOrder[j].name) = key)

\* C17: the registry maps each lowercase name to the classifier loaded last
\* under that name, the explicit files being loaded before the directory
\* scans.
C17_LastRegisteredWins ==
    pc = "registered" =>
        /\ DOMAIN registry =
              {Lower(LoadOrder[i].name) : i \in
                  {j \in 1..Len(LoadOrder) :
                      load_external_classifier(LoadOrder[j]).classifier}}
        /\ \A key \in DOMAIN registry :
              registry[key] = LoadOrder[LastLoaded(key)]

\* C17 witness: an explicit file and a scanned file give classifiers named
\* "coremark" and "CoreMark", and the registry holds the scanned one.
C17_Witness ==
    /\ pc = "registered"
    /\ \E i \in 1..Len(custom_files) : custom_files[i].name = "coremark"
    /\ \E i \in 1..Len(custom_dirs) : custom_dirs[i].name = "CoreMark"
    /\ "coremark" \in DOMAIN registry
    /\ registry["coremark"].name = "CoreMark"

\* C18: a pair whose specification file matches no registered classifier
\* stops at the exception, without records and without a result file, and
\* the batch goes on to the next pair with what it had written and counted.
C18_NoClassifierSkipsThePairOnly ==
    /\ []((pc # "idle" /\ input_filename.mentions \cap classifiers = {})
            => /\ pc = "no_classifier"
               /\ test_results = EmptyDict
               /\ results_file = EmptyDict
               /\ results_json_file(input_filename) \notin written)
    /\ []((pc = "no_classifier" /\ npairs + 1 < MaxPairs) => ENABLED NextPair)
    /\ [][pc = "no_classifier" =>
             /\ pc' = "idle"
             /\ npairs' = npairs + 1
             /\ written' = written
             /\ parsed_files' = parsed_files]_vars

\* C18 witness: the pair after one that had no classifier was parsed and its
\* result file written.
C18_Witness ==
    /\ pc = "written"
    /\ errors = <<"NoSuitableClassifierError">>
    /\ npairs = 1
    /\ parsed_files = 1
    /\ written = {results_json_file(input_filename)}
    /\ \E k \in DOMAIN results_file :
          RecordClass(results_file[k]) \in Categories

\* C19: a pair whose specification file cannot be parsed yields no records
\* and no result file, and the batch goes on to the next pair with what it
\* had written and counted.
C19_MalformedSpecificationSkipsThePair ==
    /\ []((pc \notin {"idle", "no_classifier"} /\ ~input_filename.parses)
            => /\ pc \in {"parsed", "failed"}
               /\ test_results = EmptyDict
               /\ results_file = EmptyDict
               /\ results_json_file(input_filename) \notin written)
    /\ []((pc = "failed" /\ npairs + 1 < MaxPairs) => ENABLED NextPair)
    /\ [][pc = "failed" =>
             /\ pc' = "idle"
             /\ npairs' = npairs + 1
             /\ written' = written
             /\ parsed_files' = parsed_files]_vars

\* C19 witness: the pair after one with a malformed specification was parsed
\* and its result file written.
C19_Witness ==
    /\ pc = "written"
    /\ errors = <<"JSONDecodeError">>
    /\ npairs = 1
    /\ parsed_files = 1
    /\ written = {results_json_file(input_filename)}
    /\ \E k \in DOMAIN results_file :
          RecordClass(results_file[k]) \in Categories

\* The event kinds the database holds for a test id after the import.
ImportedKinds(id) ==
    {kind \in {KindOrder[n] : n \in 1..Len(KindOrder)} :
        CASE kind = "trap" -> InTraps(id)
          [] kind = "halt" -> InHalts(id)
          [] kind = "comm_failure" -> InComm(id)
          [] kind = "exec_failure" -> InExec(id)
          [] kind = "hw_reset" -> InHwResets(id)}

\* C20: a status written to the result file and read back by
\* import_json_to_db keeps its class, its SDC value and each event kind of
\* its event list.
C20_RoundTripKeepsStatus ==
    pc = "imported" =>
        \A id \in DOMAIN results_file :
            LET status == results_file[id]["status"]
            IN  status # EmptyDict =>
                  /\ db.status[id].class = status["class"]
                  /\ db.status[id].SDC = (IF status["SDC"] THEN "1" ELSE "0")
                  /\ RecordKinds(results_file[id]) \subseteq ImportedKinds(id)

----------------------------------------------------------------------------
(* The pairs of a batch are independent of each other.                     *)

\* The classifier a call starts with when it is the first call of the
\* parser: the longest registered name that occurs in the file name.
StartOf(file) ==
    LET detected == DetectedBenchmarks(file)
    IN  IF Len(detected) = 0 THEN None ELSE LongestName(detected)

\* C21: the records of a pair do not depend on the pairs handled before it.
\* At every position of the batch a call starts with the classifier of its
\* own file name and with no records, whatever classifier the call before
\* ended with; the records after its first block are the records the same
\* block gives in a batch of one pair; and every later block changes the
\* records as a function of the call's own classifier and records only.
C21_PairsAreIndependent ==
    /\ [](pc # "idle" /\ nblocks = 0 =>
            /\ classifier = StartOf(input_filename)
            /\ benchmark_type = (IF classifier = None THEN "" ELSE classifier)
            /\ pc \in {"blocks", "no_classifier"} => test_results = EmptyDict)
    /\ [](pc = "blocks" /\ nblocks = 1 =>
            LET cls == SwitchedType(StartOf(input_filename), block.first_line)
            IN  /\ classifier = cls
                /\ test_results = RecordBlock(EmptyDict, cls, block))
    /\ [][pc = "blocks" /\ pc' = "blocks" =>
            LET cls == SwitchedType(benchmark_type, block'.first_line)
            IN  /\ classifier' = cls
                /\ test_results' = RecordBlock(test_results, cls, block')]_vars

\* C21 witness: the second call of a batch starts on "coremark_bitflips.json"
\* with the classifier "coremark", after a first call on the same file that
\* ended on a block which had switched it to "my_benchmark".
C21_Witness ==
    /\ npairs = 1
    /\ pc = "blocks"
    /\ nblocks = 0
    /\ errors = << >>
    /\ written = {<<"coremark_bitflips.json", "_results.json">>}
    /\ block.first_line.btype = "my_benchmark"
    /\ input_filename.name = "coremark_bitflips.json"
    /\ classifier = "coremark"
    /\ test_results = EmptyDict

----------------------------------------------------------------------------
(* The fallback of the tokenizer on an unregistered benchmark type.        *)

\* Lines 229-241: the first line names a benchmark type that differs from the
\* active one and that no classifier of the registry is registered under.
FallsBack(current, first_line) ==
    /\ first_line.btype # None
    /\ first_line.btype # current
    /\ first_line.btype \notin classifiers

\* C22: whenever the loop handles a block whose benchmark type names no
\* registered classifier and goes on with the active classifier, it prints a
\* message for that block.
C22_FallbackIsReported ==
    [][(pc = "blocks" /\ pc' = "blocks"
            /\ FallsBack(benchmark_type, block'.first_line))
        => Len(printed') > Len(printed)]_vars

----------------------------------------------------------------------------
(* The manual-check flag.                                                  *)

\* C26: a returned record is flagged for manual check only if its output is
\* empty.  Every record the loop stores and every synthesized entry has the
\* three required fields, so lines 290-301 never fill a field in, never
\* print their warning and never store the placeholder output; a parsed
\* record with a non-empty output is never flagged.
C26_FlaggedOnlyIfOutputEmpty ==
    /\ pc = "blocks" =>
          \A k \in DOMAIN FillMissing(test_results, input_data) :
              RequiredFields \subseteq
                  DOMAIN FillMissing(test_results, input_data)[k]
    /\ pc \in {"parsed", "written", "imported"} =>
          /\ \A k \in DOMAIN test_results :
                /\ test_results[k]["needs_manual_check"] = TRUE
                      => test_results[k]["output"] = {}
                /\ test_results[k]["output"] # {"Missing output data"}
          /\ \A i \in 1..Len(printed) :
                printed[i] # "Warning: Test is missing required fields"

\* C26 witness: the parser returned a parsed record with an empty output,
\* which is flagged, and a parsed record with a non-empty output, which is
\* not.
C26_Witness ==
    /\ pc = "parsed"
    /\ \E k1, k2 \in DOMAIN test_results :
          /\ test_results[k1]["status"] # EmptyDict
          /\ test_results[k1]["output"] = {}
          /\ test_results[k1]["needs_manual_check"] = TRUE
          /\ test_results[k2]["status"] # EmptyDict
          /\ test_results[k2]["output"] # {}
          /\ test_results[k2]["needs_manual_check"] = FALSE

----------------------------------------------------------------------------
(* The result file and its validation.                                     *)

\* C27: the result file process_log_file writes has exactly the keys of the
\* specification; every entry has args, output, status and
\* needs_manual_check, taken from the returned record of that key, and keeps
\* the bit_position of the specification; so validate_parser returns True
\* and prints its success message on every run that reaches it.
C27_ResultFileMatchesSpecification ==
    pc \in {"written", "imported"} =>
        /\ DOMAIN results_file = DOMAIN input_data
        /\ \A key \in DOMAIN results_file :
              /\ ValidatorFields \subseteq DOMAIN results_file[key]
              /\ \A f \in ValidatorFields :
                    results_file[key][f] = test_results[key][f]
              /\ results_file[key]["bit_position"]
                    = input_data[key]["bit_position"]
        /\ validate_parser(input_data, results_file)
        /\ printed[Len(printed)] = "Validation passed successfully!"

\* C27 witness: a result file was written for a specification of two ids, one
\* of them parsed and one synthesized, while the parser had also returned a
\* record that the specification does not list.
C27_Witness ==
    /\ pc = "written"
    /\ Cardinality(DOMAIN input_data) = 2
    /\ \E key \in DOMAIN test_results : key \notin DOMAIN input_data
    /\ \E k1, k2 \in DOMAIN results_file :
          /\ results_file[k1]["status"] = EmptyDict
          /\ results_file[k2]["status"] # EmptyDict

----------------------------------------------------------------------------
(* The order of the classifier switch and the test-number check.           *)

\* C28: the classifier switch comes before the test-number check.  A block
\* whose first line names a registered benchmark type other than the active
\* one and holds no test number adds no record and still makes that type the
\* active classifier; a following block that names no benchmark type keeps
\* it, and its record is named and classified by it.
C28_DroppedBlockStillSwitches ==
    /\ [][(pc = "blocks" /\ pc' = "blocks"
              /\ ~block'.first_line.test_num_match
              /\ block'.first_line.btype \in classifiers)
          => /\ test_results' = test_results
             /\ benchmark_type' = block'.first_line.btype
             /\ classifier' = block'.first_line.btype]_vars
    /\ [][(pc = "blocks" /\ pc' = "blocks"
              /\ block'.first_line.btype = None)
          => /\ classifier' = classifier
             /\ benchmark_type' = benchmark_type
             /\ block'.first_line.test_num_match =>
                  LET name == <<benchmark_type,
                                clean_test_number(block'.first_line.num)>>
                  IN  /\ name \in DOMAIN test_results'
                      /\ test_results'[name]["status"]
                            = build_status_dict(classifier, block'.output)]_vars

\* C28 witness: the first block of a "coremark" file named "my_benchmark" and
\* held no test number: no record was stored and "my_benchmark" is active.
C28_Witness ==
    /\ pc = "blocks"
    /\ nblocks = 1
    /\ FilenameClassifier(input_filename) = "coremark"
    /\ ~block.first_line.test_num_match
    /\ block.first_line.btype = "my_benchmark"
    /\ test_results = EmptyDict
    /\ classifier = "my_benchmark"
    /\ benchmark_type = "my_benchmark"

----------------------------------------------------------------------------
(* Blocks that yield the same test name.                                   *)

\* C29: the records are keyed by test name and a later block replaces the
\* record of an earlier block with the same name.  After a block with a test
\* number the record under its name is built from that block alone, with the
\* classifier active at that block; the names are the names before plus that
\* name, and the records under the other names are unchanged.
C29_LastBlockWins ==
    [][(pc = "blocks" /\ pc' = "blocks" /\ block'.first_line.test_num_match)
        => LET b == block'
               name == <<benchmark_type', clean_test_number(b.first_line.num)>>
           IN  /\ DOMAIN test_results' = DOMAIN test_results \cup {name}
               /\ test_results'[name]["output"] = b.output
               /\ test_results'[name]["args"]
                     = (IF b.first_line.args = None THEN ""
                        ELSE Strip(b.first_line.args))
               /\ test_results'[name]["status"]
                     = build_status_dict(classifier', b.output)
               /\ \A k \in DOMAIN test_results \ {name} :
                     test_results'[k] = test_results[k]]_vars

\* C29 witness: on a file that starts with "my_benchmark" the block
\* "coremark ... 1" stored "coremark_1", and the following block "...a1",
\* which yields the same name, replaced it: one record, with the output of
\* the last block.
C29_Witness ==
    /\ pc = "blocks"
    /\ nblocks = 2
    /\ input_filename.name = "my_benchmark_coremark.json"
    /\ block.first_line = FirstLine(None, TRUE, <<"a", "1">>, None)
    /\ block.output = {"ERROR", "INCORRECT_RESULT"}
    /\ DOMAIN test_results = {<<"coremark", <<"1">>>>}
    /\ test_results[<<"coremark", <<"1">>>>]["output"] = block.output
    /\ test_results[<<"coremark", <<"1">>>>]["status"]["class"] = "failed"

----------------------------------------------------------------------------
(* Repeated imports into one database.                                     *)

\* The test ids of the imported result files.
ImportIds == {id \in ExpectedIds : id[2] = <<"1">>}

\* The entry update_json_file writes for a parsed block with the given output.
ResultEntry(id, output) ==
    Update([bit_position |-> BitPosition(id)],
           FlagRecord([args |-> "", output |-> output,
                       status |-> build_status_dict(id[1], output)]))

\* Result files: some of the ids, each with the record of one output text.
ResultFiles ==
    UNION { { [id \in S |-> ResultEntry(id, o[id])] : o \in [S -> Outputs] } :
            S \in (SUBSET ImportIds) \ {{}} }

\* import_json_to_db on a result file of the benchmark, on the database the
\* converter object was opened on, whatever was imported into it before.
ImportResultsFile ==
    /\ pc \in {"idle", "imported"}
    /\ nimports < MaxImports
    /\ \E file \in {f \in InputFiles : f.name = "my_benchmark_coremark.json"},
          content_of_file \in ResultFiles :
          /\ input_filename' = file
          /\ results_file' = content_of_file
          /\ db' = ImportedDb(db, content_of_file, file.head)
    /\ nimports' = nimports + 1
    /\ pc' = "imported"
    /\ UNCHANGED <<input_data, benchmark_type, classifier, test_results, block,
                   nblocks, content, test_blocks, status_dict, regVars,
                   batchVars, printed, mainVars, injectVars, monitorVars>>

NextImport == ImportResultsFile

SpecImport == Init /\ [][NextImport]_vars

\* C30: after any sequence of imports, the event tables hold for every test
\* id of the file imported last no row of an event kind that its record in
\* that file does not have.
C30_NoStaleEventRows ==
    nimports > 0 =>
        \A id \in DOMAIN results_file :
            ImportedKinds(id) \subseteq RecordKinds(results_file[id])

----------------------------------------------------------------------------
(* main(): the order of the stages.                                        *)

\* The stage functions in the order main calls them.
StageOrder == <<"parse_logs", "import_to_database", "analyze_results">>

\* A stage function returns True or False, or an exception leaves main.
Outcomes == {"True", "False", "raises"}

\* Lines 602-628: main calls the stage when --full-pipeline or the stage's
\* own switch is given.
Wanted(f, stage) ==
    \/ f["full_pipeline"]
    \/ stage = "parse_logs" /\ f["parse_logs"]
    \/ stage = "import_to_database" /\ f["import_results"]
    \/ stage = "analyze_results" /\ (f["analyze"] \/ f["list_benchmarks"])

\* A main that goes on to the next stage whatever the stage returned.
AfterStageContinues(outcome, next) == next

\* "if not stage(args): return 1": where main is after the stage.
AfterStage(outcome, next) == IF outcome = "True" THEN next ELSE "exited"

\* The exit status after a stage: 1 when it returned False (return 1) or
\* raised (the interpreter ends with the traceback), none yet otherwise.
ExitAfterStage(outcome) == IF outcome = "True" THEN << >> ELSE <<1>>

\* The parts of the state main does not touch.
parserVars == <<input_filename, input_data, benchmark_type, classifier,
                test_results, block, nblocks, results_file, db, content,
                test_blocks, status_dict, regVars, batchVars, printed>>

\* Lines 531-593: the switches are parsed; --list-classifiers prints the
\* registry and returns 0.
StartMain ==
    /\ pc = "idle"
    /\ \E f \in Flags :
          /\ flags' = f
          /\ pc' = IF f["list_classifiers"] THEN "exited" ELSE "main"
          /\ exit_code' = IF f["list_classifiers"] THEN <<0>> ELSE << >>
    /\ UNCHANGED <<started, returned, parserVars, importVars, injectVars,
                   monitorVars>>

\* Lines 595-596: --monitor runs the monitor and nothing else.
MonitorFile ==
    /\ pc = "main"
    /\ flags["monitor"]
    /\ \E ok \in BOOLEAN : exit_code' = IF ok THEN <<0>> ELSE <<1>>
    /\ pc' = "exited"
    /\ UNCHANGED <<flags, started, returned, parserVars, importVars, injectVars,
                   monitorVars>>

\* Lines 598-600: --inject runs the injection first and ends main when it
\* fails.
InjectFaults ==
    /\ pc = "main"
    /\ ~flags["monitor"]
    /\ \E ok \in BOOLEAN :
          IF flags["inject"] /\ ~ok
          THEN pc' = "exited" /\ exit_code' = <<1>>
          ELSE pc' = "parse_logs" /\ UNCHANGED exit_code
    /\ UNCHANGED <<flags, started, returned, parserVars, importVars, injectVars,
                   monitorVars>>

\* One stage of lines 602-628 and the position after it.
Stage(stage, next) ==
    /\ pc = stage
    /\ IF Wanted(flags, stage)
       THEN \E outcome \in Outcomes :
               /\ started' = Append(started, stage)
               /\ returned' = Append(returned, outcome)
               /\ pc' = AfterStage(outcome, next)
               /\ exit_code' = ExitAfterStage(outcome)
       ELSE /\ pc' = next
            /\ UNCHANGED <<started, returned, exit_code>>
    /\ UNCHANGED <<flags, parserVars, importVars, injectVars,
                   monitorVars>>

ParseLogs == Stage("parse_logs", "import_to_database")
ImportToDatabase == Stage("import_to_database", "analyze_results")
AnalyzeResults == Stage("analyze_results", "return")

\* Line 630: return 0.
ReturnZero ==
    /\ pc = "return"
    /\ pc' = "exited"
    /\ exit_code' = <<0>>
    /\ UNCHANGED <<flags, started, returned, parserVars, importVars, injectVars,
                   monitorVars>>

NextMain ==
    \/ StartMain
    \/ MonitorFile
    \/ InjectFaults
    \/ ParseLogs
    \/ ImportToDatabase
    \/ AnalyzeResults
    \/ ReturnZero

SpecMain == Init /\ [][NextMain]_vars

\* C24: with --full-pipeline the stages are called in the order parse logs,
\* import, analyze; a stage is called only after every earlier stage
\* returned True; when a stage does not return True the process ends with
\* exit status 1 and no later stage is called; and exit status 0 after the
\* pipeline was entered means that all three stages ran and returned True.
C24_StagesRunInOrder ==
    flags["full_pipeline"] =>
        /\ Len(started) <= Len(StageOrder)
        /\ Len(returned) = Len(started)
        /\ \A i \in 1..Len(started) :
              /\ started[i] = StageOrder[i]
              /\ i < Len(started) => returned[i] = "True"
        /\ \A i \in 1..Len(returned) :
              returned[i] # "True" => pc = "exited" /\ exit_code = <<1>>
        /\ (exit_code = <<0>> /\ ~flags["list_classifiers"]
                /\ ~flags["monitor"])
              => /\ started = StageOrder
                 /\ \A i \in 1..Len(returned) : returned[i] = "True"

\* C24 witness: with --full-pipeline the parsing succeeded, the import
\* returned False, the analysis was not called and the exit status is 1.
C24_Witness ==
    /\ flags["full_pipeline"]
    /\ pc = "exited"
    /\ started = <<"parse_logs", "import_to_database">>
    /\ returned = <<"True", "False">>
    /\ exit_code = <<1>>

----------------------------------------------------------------------------
(* FaultInjecter.inject_bitflips                                           *)

\* Base names of binary files, as sequences of characters.
BinaryNames == { <<"m", "a", "t", "m", "u", "l">>, <<"a", "b">> }

\* Byte values of the binary file: 0x00 and 0xA5.
ByteValues == {0, 165}

\* The contents of a binary file of at most MaxBytes bytes.
BinaryData == UNION { [1..n -> ByteValues] : n \in 0..MaxBytes }

\* The requested numbers of flips: small counts, every bit of the file, and
\* one more than the file has bits.
NumFlipsOf(d) == (0..MaxFlips) \cup {8 * Len(d), 8 * Len(d) + 1}

\* os.path.basename(file_path)[:5]
Prefix5(name) == SubSeq(name, 1, IF Len(name) < 5 THEN Len(name) ELSE 5)

\* f"{filename}_{i}"
OutputFile(name, i) == <<Prefix5(name), i>>

\* The strictly ascending sequences of n numbers of lo..hi.
RECURSIVE Ascending(_, _, _)
Ascending(lo, hi, n) ==
    IF n = 0 THEN {<< >>}
    ELSE UNION { { <<x>> \o s : s \in Ascending(x + 1, hi, n - 1) } :
                 x \in lo..(hi - n + 1) }

Reverse(s) == [i \in 1..Len(s) |-> s[Len(s) + 1 - i]]

\* random.sample(range(0, total_bits), num_flips): num_flips distinct
\* positions in an order of the generator's choice (here: the ascending and
\* the descending order of every choice); ValueError, modelled as no sample,
\* for a count above total_bits.
Samples(total_bits, n) ==
    IF n > total_bits THEN {}
    ELSE Ascending(0, total_bits - 1, n)
            \cup {Reverse(s) : s \in Ascending(0, total_bits - 1, n)}

\* Insertion of x into an ascending list.
Insert(x, s) ==
    LET k == Cardinality({i \in 1..Len(s) : s[i] <= x})
    IN  SubSeq(s, 1, k) \o <<x>> \o SubSeq(s, k + 1, Len(s))

RECURSIVE InsertionSort(_)
InsertionSort(s) ==
    IF s = << >> THEN << >> ELSE Insert(Head(s), InsertionSort(Tail(s)))

\* A sort that leaves the list in the order of the sample.
SortKeepsOrder(s) == s

\* rand_bits.sort()
SortList(s) == InsertionSort(s)

\* byte ^ (1 << bit_idx) on a value of 0..255.
FlipBit(byte, bit_idx) ==
    IF (byte \div (2 ^ bit_idx)) % 2 = 1
    THEN byte - 2 ^ bit_idx
    ELSE byte + 2 ^ bit_idx

\* Lines 74-79: the bytes written for the flip of one bit position.
Flipped(d, bit_pos) ==
    LET byte_idx == bit_pos \div 8
        bit_idx == bit_pos % 8
    IN  [j \in 1..Len(d) |->
            IF j = byte_idx + 1 THEN FlipBit(d[j], bit_idx) ELSE d[j]]

\* Lines 66-71: the information stored for one output file.
FlipInfo(name, bit_pos) ==
    [original_file |-> name,
     bit_position |-> bit_pos,
     byte_index |-> bit_pos \div 8,
     bit_index |-> bit_pos % 8]

\* inject_bitflips, lines 39-81: read the file, sample and sort the bit
\* positions, write one file per position and return the dictionary.  The
\* ValueError of random.sample leaves the function before a file is written.
InjectBitflips ==
    /\ pc = "idle"
    /\ \E name \in BinaryNames, d \in BinaryData :
          \E n \in NumFlipsOf(d) :
             /\ file_path' = name
             /\ original_data' = d
             /\ num_flips' = n
             /\ IF Samples(8 * Len(d), n) = {}
                THEN /\ pc' = "inject_failed"
                     /\ UNCHANGED <<rand_bits, bitflips, out_files>>
                ELSE \E sample \in Samples(8 * Len(d), n) :
                        LET sorted == SortList(sample)
                            files == {OutputFile(name, i - 1) :
                                          i \in 1..Len(sorted)}
                            PosOf(f) == sorted[f[2] + 1]
                        IN  /\ rand_bits' = sorted
                            /\ bitflips' =
                                  [f \in files |-> FlipInfo(name, PosOf(f))]
                            /\ out_files' =
                                  [f \in files |-> Flipped(d, PosOf(f))]
                            /\ pc' = "injected"
    /\ UNCHANGED <<parserVars, importVars, mainVars, monitorVars>>

NextInject == InjectBitflips

SpecInject == Init /\ [][NextInject]_vars

\* Bit p of a byte string, counted from the least significant bit of the
\* first byte.
BitAt(d, p) == (d[(p \div 8) + 1] \div (2 ^ (p % 8))) % 2

\* The bit positions in which two byte strings of the same length differ.
DiffBits(a, b) == {p \in 0..(8 * Len(b) - 1) : BitAt(a, p) # BitAt(b, p)}

\* C25: for num_flips <= 8 * len(data) inject_bitflips writes num_flips
\* files; file i has the length of the original and differs from it in
\* exactly one bit, the one recorded for it, with bit_position =
\* 8 * byte_index + bit_index, 0 <= bit_index < 8 and 0 <= bit_position <
\* 8 * len(data); the recorded positions are strictly ascending in i, hence
\* pairwise distinct.
C25_OneRecordedBitPerFile ==
    (pc \in {"injected", "inject_failed"}
        /\ num_flips <= 8 * Len(original_data)) =>
        /\ pc = "injected"
        /\ Cardinality(DOMAIN out_files) = num_flips
        /\ DOMAIN out_files = {OutputFile(file_path, i) :
                                  i \in 0..(num_flips - 1)}
        /\ DOMAIN bitflips = DOMAIN out_files
        /\ \A f \in DOMAIN out_files :
              LET e == bitflips[f]
              IN  /\ e.bit_position = 8 * e.byte_index + e.bit_index
                  /\ e.bit_index \in 0..7
                  /\ e.bit_position \in 0..(8 * Len(original_data) - 1)
                  /\ Len(out_files[f]) = Len(original_data)
                  /\ DiffBits(out_files[f], original_data) = {e.bit_position}
        /\ \A f, g \in DOMAIN bitflips :
              f[2] < g[2] => bitflips[f].bit_position < bitflips[g].bit_position

\* C25 witness: every bit of a one-byte file was flipped, one per file: eight
\* files, the last of them with bit 7 flipped.
C25_Witness ==
    /\ pc = "injected"
    /\ Len(original_data) = 1
    /\ num_flips = 8
    /\ Cardinality(DOMAIN out_files) = 8
    /\ bitflips[OutputFile(file_path, 7)].bit_position = 7
    /\ out_files[OutputFile(file_path, 7)] # original_data

----------------------------------------------------------------------------
(* CanDaGuardia.monitor                                                    *)

\* time.time() when monitor is called, in seconds since the epoch.
StartTime == 1000

\* What a read at the current position returns: b'' when nothing was
\* appended since the read before, the appended bytes otherwise.
Chunks == {"", "a\n", "b\n"}

\* Lines 37-49: the file must exist; the position is set to the end of the
\* file, so that the first read returns b''.
StartMonitor ==
    /\ pc = "idle"
    /\ \E exists \in BOOLEAN, interval \in 1..MaxInterval :
          /\ alert_interval' = interval
          /\ pc' = IF exists THEN "monitoring" ELSE "FileNotFoundError"
          /\ cur_time' = IF exists THEN StartTime ELSE cur_time
    /\ stuck' = FALSE
    /\ last_alert_time' = 0
    /\ old_data' = ""
    /\ UNCHANGED <<read_data, alert_times, silent_polls, parserVars,
                   importVars, mainVars, injectVars>>

\* Lines 53-71: one iteration of the loop, sleep(1) included.
Poll ==
    /\ pc = "monitoring"
    /\ cur_time - StartTime < MaxPolls
    /\ \E chunk \in Chunks :
          /\ read_data' = chunk
          /\ cur_time' = cur_time + 1
          /\ stuck' = IF chunk = old_data /\ chunk # "" THEN TRUE
                      ELSE IF chunk # "" THEN FALSE
                      ELSE stuck
          /\ old_data' = IF chunk # old_data /\ chunk # "" THEN chunk
                         ELSE old_data
          /\ silent_polls' = IF chunk = "" THEN silent_polls + 1 ELSE 0
    /\ IF stuck' /\ cur_time' - last_alert_time > alert_interval
       THEN /\ alert_times' = Append(alert_times, cur_time')
            /\ last_alert_time' = cur_time'
       ELSE UNCHANGED <<alert_times, last_alert_time>>
    /\ UNCHANGED <<pc, alert_interval, parserVars, importVars, mainVars,
                   injectVars>>

\* Lines 72-73: Ctrl+C ends the loop.
StopMonitor ==
    /\ pc = "monitoring"
    /\ pc' = "stopped"
    /\ UNCHANGED <<monitorVars, parserVars, importVars, mainVars, injectVars>>

NextMonitor ==
    \/ StartMonitor
    \/ Poll
    \/ StopMonitor

SpecMonitor == Init /\ [][NextMonitor]_vars

\* Iterations granted to the monitor, beyond alert_interval seconds without
\* new data, to raise its alert.
Slack == 2

\* C23: when the monitored file has received no new data for alert_interval
\* seconds and Slack more iterations (one iteration takes a second), the
\* monitor is in the stuck state and has raised an alert since the data
\* stopped; and two alerts are always more than alert_interval apart.
C23_SilentFileIsReported ==
    /\ (pc = "monitoring" /\ silent_polls >= alert_interval + Slack) =>
          /\ stuck
          /\ \E i \in 1..Len(alert_times) :
                alert_times[i] > cur_time - silent_polls
    /\ \A i \in 1..(Len(alert_times) - 1) :
          alert_times[i + 1] - alert_times[i] > alert_interval

====
